---- MODULE Spec2Model ----
(***************************************************************************)
(* A model of MEPA.py: the MEPA instruction parser, the stack machine      *)
(* (MepaMachine) with its run / debug control methods, and the REPL        *)
(* commands that edit the program and drive the machine.                   *)
(*                                                                         *)
(* Strings of the program are modelled as sequences of one-character       *)
(* strings, so that parsing (strip, split, upper, int) is computed and not *)
(* assumed.  The alphabet is digits, ASCII letters, "_", ":", "-", "+" and *)
(* the space; without quote or backslash characters shlex.split is a       *)
(* whitespace split.                                                       *)
(***************************************************************************)
EXTENDS Integers, Sequences, FiniteSets, TLC

----------------------------------------------------------------------------
(* Bounds of the model *)

\* instructions executed (or attempted) in one run / debug session
MaxSteps == 6

----------------------------------------------------------------------------
(* Python's None.  A value that may be None (an index, a line number, the  *)
(* pair last_executed_line) is a sequence: None is the empty one and a     *)
(* number x is Some(x), so that no line number, negative ones included,    *)
(* is taken for None.                                                      *)
None == <<>>
Some(x) == <<x>>

----------------------------------------------------------------------------
(* Characters and the str methods the parser uses *)

DigitSeq == <<"0","1","2","3","4","5","6","7","8","9">>
UpperSeq == <<"A","B","C","D","E","F","G","H","I","J","K","L","M",
              "N","O","P","Q","R","S","T","U","V","W","X","Y","Z">>
LowerSeq == <<"a","b","c","d","e","f","g","h","i","j","k","l","m",
              "n","o","p","q","r","s","t","u","v","w","x","y","z">>

Range(s) == {s[i] : i \in 1..Len(s)}

Digit == Range(DigitSeq)
Letter == Range(UpperSeq) \cup Range(LowerSeq)

\* int value of one digit character
DigitVal(c) == (CHOOSE i \in 1..10 : DigitSeq[i] = c) - 1

\* str.isspace for one character
IsSpace(c) == c = " "

\* str.upper for one character
UpperChar(c) ==
    IF c \in Range(LowerSeq)
    THEN UpperSeq[CHOOSE i \in 1..26 : LowerSeq[i] = c]
    ELSE c

\* str.upper
upper(s) == [i \in 1..Len(s) |-> UpperChar(s[i])]

RECURSIVE lstrip(_)
lstrip(s) ==
    IF s # <<>> /\ IsSpace(Head(s)) THEN lstrip(Tail(s)) ELSE s

RECURSIVE rstrip(_)
rstrip(s) ==
    IF s # <<>> /\ IsSpace(s[Len(s)])
    THEN rstrip(SubSeq(s, 1, Len(s) - 1))
    ELSE s

\* str.strip()
strip(s) == rstrip(lstrip(s))

\* index (1-based) of the first occurrence of c in s, 0 when there is none
find(s, c) ==
    IF \E i \in 1..Len(s) : s[i] = c
    THEN CHOOSE i \in 1..Len(s) :
            s[i] = c /\ \A j \in 1..(i - 1) : s[j] # c
    ELSE 0

\* str.split() / shlex.split on a text without quotes: the maximal runs of
\* non-space characters, in order
RECURSIVE split(_)
\* t has no leading space, n is the index of its first space (0: none)
SplitAt(t, n) ==
    IF t = <<>> THEN <<>>
    ELSE IF n = 0 THEN <<t>>
    ELSE <<SubSeq(t, 1, n - 1)>> \o split(SubSeq(t, n, Len(t)))

SplitStripped(t) == SplitAt(t, find(t, " "))

split(s) == SplitStripped(lstrip(s))

\* str.split(None, 1): the first token and the rest of the text, which keeps
\* its inner and trailing spaces
Split1Rest(first, rest) ==
    IF rest = <<>> THEN <<first>> ELSE <<first, rest>>

Split1At(t, n) ==
    IF t = <<>> THEN <<>>
    ELSE IF n = 0 THEN <<t>>
    ELSE Split1Rest(SubSeq(t, 1, n - 1), lstrip(SubSeq(t, n, Len(t))))

Split1Stripped(t) == Split1At(t, find(t, " "))

split1(s) == Split1Stripped(lstrip(s))

\* str.isdigit(): non-empty and digits only
isdigit(s) == s # <<>> /\ \A i \in 1..Len(s) : s[i] \in Digit

\* c.isalnum() or c == '_'
IsLabelChar(c) == c \in Digit \cup Letter \cup {"_"}

\* the text int() accepts: an optional sign, then digits that may be
\* separated by single underscores
IsIntBody(body) ==
    /\ body # <<>>
    /\ \A i \in 1..Len(body) : body[i] \in Digit \cup {"_"}
    /\ body[1] \in Digit
    /\ body[Len(body)] \in Digit
    /\ \A i \in 1..(Len(body) - 1) : ~(body[i] = "_" /\ body[i + 1] = "_")

IsIntLiteral(s) ==
    IsIntBody(IF s # <<>> /\ Head(s) \in {"-", "+"} THEN Tail(s) ELSE s)

RECURSIVE DigitsValue(_, _)
DigitsValue(s, acc) ==
    IF s = <<>> THEN acc
    ELSE IF Head(s) = "_" THEN DigitsValue(Tail(s), acc)
    ELSE DigitsValue(Tail(s), 10 * acc + DigitVal(Head(s)))

\* int(s) for a text int() accepts
int(s) ==
    IF Head(s) = "-" THEN 0 - DigitsValue(Tail(s), 0)
    ELSE IF Head(s) = "+" THEN DigitsValue(Tail(s), 0)
    ELSE DigitsValue(s, 0)

----------------------------------------------------------------------------
(* parse_line_text: (label, instr, args); an absent label or opcode (None) *)
(* is the empty sequence, which no label or opcode token can be            *)

\* instr = parts[0].upper(); args = parts[1:]
ParseParts(label, parts) ==
    [label |-> label, instr |-> upper(parts[1]), args |-> Tail(parts)]

\* if not instr_part: return (label, None, [], "")
ParseInstr(label, instr_part) ==
    IF instr_part = <<>>
    THEN [label |-> label, instr |-> <<>>, args |-> <<>>]
    ELSE ParseParts(label, split(instr_part))

\* tok is the text before the first colon, after the text behind it
ParseLabel(text, tok, after) ==
    IF tok # <<>> /\ \A i \in 1..Len(tok) : IsLabelChar(tok[i])
    THEN ParseInstr(tok, after)
    ELSE ParseInstr(<<>>, text)

\* colon is the index of the first colon of text (0: none)
ParseAt(text, colon) ==
    IF colon = 0 THEN ParseInstr(<<>>, text)
    ELSE ParseLabel(text, strip(SubSeq(text, 1, colon - 1)),
                    strip(SubSeq(text, colon + 1, Len(text))))

ParseStripped(text) == ParseAt(text, find(text, ":"))

parse_line_text(raw_text) == ParseStripped(strip(raw_text))

----------------------------------------------------------------------------
(* The opcodes execute_current recognises, as the parser returns them *)

OP == [INPP |-> <<"I","N","P","P">>,
       PARA |-> <<"P","A","R","A">>,
       AMEM |-> <<"A","M","E","M">>,
       DMEM |-> <<"D","M","E","M">>,
       CRCT |-> <<"C","R","C","T">>,
       CRVL |-> <<"C","R","V","L">>,
       ARMZ |-> <<"A","R","M","Z">>,
       SOMA |-> <<"S","O","M","A">>,
       SUBT |-> <<"S","U","B","T">>,
       MULT |-> <<"M","U","L","T">>,
       DIVI |-> <<"D","I","V","I">>,
       INVR |-> <<"I","N","V","R">>,
       CONJ |-> <<"C","O","N","J">>,
       DISJ |-> <<"D","I","S","J">>,
       CMME |-> <<"C","M","M","E">>,
       CMMA |-> <<"C","M","M","A">>,
       CMIG |-> <<"C","M","I","G">>,
       CMDG |-> <<"C","M","D","G">>,
       CMEG |-> <<"C","M","E","G">>,
       CMAG |-> <<"C","M","A","G">>,
       DSVS |-> <<"D","S","V","S">>,
       DSVF |-> <<"D","S","V","F">>,
       NADA |-> <<"N","A","D","A">>,
       IMPR |-> <<"I","M","P","R">>]

BinaryOps == {OP.SOMA, OP.SUBT, OP.MULT, OP.DIVI, OP.CONJ, OP.DISJ,
              OP.CMME, OP.CMMA, OP.CMIG, OP.CMDG, OP.CMEG, OP.CMAG}

\* a division that rounds toward zero, b # 0
truncdiv(a, b) ==
    IF (a >= 0) = (b > 0)
    THEN (IF a >= 0 THEN a ELSE 0 - a) \div (IF b > 0 THEN b ELSE 0 - b)
    ELSE 0 - ((IF a >= 0 THEN a ELSE 0 - a) \div (IF b > 0 THEN b ELSE 0 - b))

\* Python's a // b (floor division), b # 0
floordiv(a, b) == IF b > 0 THEN a \div b ELSE (0 - a) \div (0 - b)

Bool(p) == IF p THEN 1 ELSE 0

\* the value a binary opcode pushes for the operands a (pushed earlier) and b
BinaryValue(instr, a, b) ==
    CASE instr = OP.SOMA -> a + b
      [] instr = OP.SUBT -> a - b
      [] instr = OP.MULT -> a * b
      [] instr = OP.DIVI -> floordiv(a, b)
      [] instr = OP.CONJ -> Bool(a # 0 /\ b # 0)
      [] instr = OP.DISJ -> Bool(a # 0 \/ b # 0)
      [] instr = OP.CMME -> Bool(a < b)
      [] instr = OP.CMMA -> Bool(a > b)
      [] instr = OP.CMIG -> Bool(a = b)
      [] instr = OP.CMDG -> Bool(a # b)
      [] instr = OP.CMEG -> Bool(a <= b)
      [] instr = OP.CMAG -> Bool(a >= b)

----------------------------------------------------------------------------
(* The report of the last call: what it printed, returned or raised.       *)
(*   op    the method or command                                           *)
(*   kind  "pending" (a line was shown as the next instruction),           *)
(*         "finished" / "finished_para" (Programa finalizado ...),         *)
(*         "running" (inside run's loop), "returned", "stopped",           *)
(*         "error" (an exception of execute_current or of the start),      *)
(*         "rejected" (the call was refused), "ok", "none"                 *)
(*   line  the line shown or the line of the error, else None              *)
(*   cause the message of the error                                        *)
(*   stopped_debug  the REPL ended a debug session before the command      *)
(*         (it printed "Modo de depuracao encerrado")                      *)

Report(op, kind, line, cause) ==
    [op |-> op, kind |-> kind, line |-> line, cause |-> cause,
     stopped_debug |-> FALSE]

----------------------------------------------------------------------------
(* MepaMachine.  A machine is a record of the object's fields, plus what   *)
(* the session has shown: out (the values IMPR printed), trace (the lines  *)
(* execute_current was entered on) and result (the last report).           *)
(* Python lists are sequences (index i is position i + 1) and pc_index is  *)
(* the 0-based index of the source.                                        *)

\* the least element of a non-empty set of integers
Least(S) == CHOOSE x \in S : \A y \in S : x <= y

RECURSIVE sorted(_)
SortedFrom(S, x) == <<x>> \o sorted(S \ {x})

sorted(S) == IF S = {} THEN <<>> ELSE SortedFrom(S, Least(S))

\* d[k] = v on a dict
Put(d, k, v) == [x \in DOMAIN d \cup {k} |-> IF x = k THEN v ELSE d[x]]

EmptyDict == [x \in {} |-> 0]

\* if label: self.labels[label] = ln
PutLabel(acc, label, ln) == IF label # <<>> THEN Put(acc, label, ln) ELSE acc

\* the loop of rebuild_metadata over sorted_lines: a later line's label
\* overwrites an earlier one
RECURSIVE scan_labels(_, _, _)
scan_labels(lines, sl, acc) ==
    IF sl = <<>> THEN acc
    ELSE scan_labels(lines, Tail(sl),
                     PutLabel(acc, parse_line_text(lines[Head(sl)]).label, Head(sl)))

\* a rebuild that leaves the label table as it was
RebuildKeepLabels(m, lines, sl) ==
    [m EXCEPT !.sorted_lines = sl,
              !.line_index_map = [ln \in DOMAIN lines |->
                                    (CHOOSE i \in 1..Len(sl) : sl[i] = ln) - 1]]

\* sl is sorted(self.program.lines.keys())
RebuildFrom(m, lines, sl) ==
    [m EXCEPT !.sorted_lines = sl,
              !.line_index_map = [ln \in DOMAIN lines |->
                                    (CHOOSE i \in 1..Len(sl) : sl[i] = ln) - 1],
              !.labels = scan_labels(lines, sl, EmptyDict)]

rebuild_metadata(m, lines) == RebuildFrom(m, lines, sorted(DOMAIN lines))

\* a reset that forgets the stack and the memory
reset_keeping_stack(m, lines) ==
    rebuild_metadata(
        [m EXCEPT !.labels = EmptyDict,
                  !.sorted_lines = <<>>, !.line_index_map = EmptyDict,
                  !.pc_index = 0, !.debug_mode = FALSE, !.debug_paused = FALSE,
                  !.running = FALSE, !.last_executed_line = None,
                  !.out = <<>>, !.trace = <<>>,
                  !.result = Report("init", "none", None, "")],
        lines)

\* every field is assigned; what the previous session showed is gone too
reset_machine_state(m, lines) ==
    rebuild_metadata(
        [m EXCEPT !.stack = <<>>, !.memory = <<>>, !.labels = EmptyDict,
                  !.sorted_lines = <<>>, !.line_index_map = EmptyDict,
                  !.pc_index = 0, !.debug_mode = FALSE, !.debug_paused = FALSE,
                  !.running = FALSE, !.last_executed_line = None,
                  !.out = <<>>, !.trace = <<>>,
                  !.result = Report("init", "none", None, "")],
        lines)

\* the object before __init__ has assigned anything
Blank ==
    [stack |-> <<>>, memory |-> <<>>, labels |-> EmptyDict,
     sorted_lines |-> <<>>, line_index_map |-> EmptyDict,
     pc_index |-> 0, debug_mode |-> FALSE, debug_paused |-> FALSE,
     running |-> FALSE, last_executed_line |-> None,
     out |-> <<>>, trace |-> <<>>,
     result |-> Report("init", "none", None, "")]

\* MepaMachine(program)
NewMachine(lines) == reset_machine_state(Blank, lines)

\* hits are the indexes (0-based) of the lines whose opcode is INPP
FirstHit(m, hits) ==
    IF hits # {} THEN Some(Least(hits))
    ELSE IF m.sorted_lines # <<>> THEN Some(0)
    ELSE None

\* a start rule that does not look for INPP
find_pc_first_line(m, lines) == FirstHit(m, {})

\* the index of the first line whose opcode is INPP, else 0, else None
find_pc_for_start(m, lines) ==
    FirstHit(m, {i \in 0..(Len(m.sorted_lines) - 1) :
                    parse_line_text(lines[m.sorted_lines[i + 1]]).instr = OP.INPP})

get_current_line_lnum(m) ==
    IF 0 <= m.pc_index /\ m.pc_index < Len(m.sorted_lines)
    THEN Some(m.sorted_lines[m.pc_index + 1])
    ELSE None

\* ln = int(target); if ln in self.line_index_map
JumpToNumber(m, ln) ==
    IF ln \in DOMAIN m.line_index_map
    THEN [ok |-> TRUE, pc |-> m.line_index_map[ln]]
    ELSE [ok |-> FALSE, pc |-> m.pc_index]

\* jump_to_line for a str target: [ok, pc]
jump_to_line(m, target) ==
    IF isdigit(target) \/ (target # <<>> /\ Head(target) = "-" /\ isdigit(Tail(target)))
    THEN JumpToNumber(m, int(target))
    ELSE IF target \in DOMAIN m.labels
         THEN [ok |-> TRUE, pc |-> m.line_index_map[m.labels[target]]]
         ELSE [ok |-> FALSE, pc |-> m.pc_index]

----------------------------------------------------------------------------
(* execute_current.  The outcome is [m, ret, cause]: ret is "True" or      *)
(* "False" (the value returned) or "raise" (the RuntimeError the except    *)
(* clause raises, with cause the message of the wrapped exception).        *)

\* an advance that skips a line
AdvanceTwo(m) ==
    [m |-> [m EXCEPT !.pc_index = @ + 2], ret |-> "True", cause |-> ""]

\* self.pc_index += 1; return True
Advance(m) ==
    [m |-> [m EXCEPT !.pc_index = @ + 1], ret |-> "True", cause |-> ""]

\* return True after a jump set pc_index
Jumped(m, pc) ==
    [m |-> [m EXCEPT !.pc_index = pc], ret |-> "True", cause |-> ""]

\* an exception that leaves the counter behind the failing line
RaiseSkips(m, cause) ==
    [m |-> [m EXCEPT !.pc_index = @ + 1], ret |-> "raise", cause |-> cause]

\* an exception inside the try block: the fields keep what was done so far
Raise(m, cause) == [m |-> m, ret |-> "raise", cause |-> cause]

\* int(args[0]) raises ValueError; pop() and peek() raise on an empty stack
IntError == "invalid literal for int()"
EmptyStack == "Pilha vazia"

\* list.pop() / list[-1] of a non-empty list
Top(stack) == stack[Len(stack)]
Popped(stack) == SubSeq(stack, 1, Len(stack) - 1)

AmemBy(m, n) ==
    IF n < 0 THEN Raise(m, "AMEM argumento invalido")
    ELSE Advance([m EXCEPT !.memory = @ \o [i \in 1..n |-> 0]])

ExecAMEM(m, args) ==
    IF Len(args) # 1 THEN Raise(m, "AMEM requer 1 argumento")
    ELSE IF ~IsIntLiteral(args[1]) THEN Raise(m, IntError)
    ELSE AmemBy(m, int(args[1]))

\* a DMEM that takes the cells away at the low addresses
DmemFront(m, n) ==
    IF n < 0 \/ n > Len(m.memory) THEN Raise(m, "DMEM argumento invalido")
    ELSE Advance([m EXCEPT !.memory = SubSeq(@, n + 1, Len(@))])

DmemBy(m, n) ==
    IF n < 0 \/ n > Len(m.memory) THEN Raise(m, "DMEM argumento invalido")
    ELSE Advance([m EXCEPT !.memory = SubSeq(@, 1, Len(@) - n)])

ExecDMEM(m, args) ==
    IF Len(args) # 1 THEN Raise(m, "DMEM requer 1 argumento")
    ELSE IF ~IsIntLiteral(args[1]) THEN Raise(m, IntError)
    ELSE DmemBy(m, int(args[1]))

ExecCRCT(m, args) ==
    IF Len(args) # 1 THEN Raise(m, "CRCT requer 1 argumento")
    ELSE IF ~IsIntLiteral(args[1]) THEN Raise(m, IntError)
    ELSE Advance([m EXCEPT !.stack = Append(@, int(args[1]))])

\* ensure_memory_index raises IndexError before memory is read
CrvlAt(m, n) ==
    IF n < 0 THEN Raise(m, "Endereco de memoria negativo")
    ELSE IF n >= Len(m.memory) THEN Raise(m, "Endereco de memoria fora do limite")
    ELSE Advance([m EXCEPT !.stack = Append(@, m.memory[n + 1])])

ExecCRVL(m, args) ==
    IF Len(args) # 1 THEN Raise(m, "CRVL requer 1 argumento")
    ELSE IF ~IsIntLiteral(args[1]) THEN Raise(m, IntError)
    ELSE CrvlAt(m, int(args[1]))

\* a store that grows the memory up to an address that is not allocated
ArmzStoreGrow(m, n, val) ==
    IF n < 0 THEN Raise(m, "ARMZ indice negativo")
    ELSE IF n >= Len(m.memory)
    THEN Advance([m EXCEPT !.memory =
                    [i \in 1..(n + 1) |-> IF i = n + 1 THEN val
                                          ELSE IF i <= Len(m.memory) THEN m.memory[i]
                                          ELSE 0]])
    ELSE Advance([m EXCEPT !.memory[n + 1] = val])

\* m is the machine after val = self.pop()
ArmzStore(m, n, val) ==
    IF n < 0 THEN Raise(m, "ARMZ indice negativo")
    ELSE IF n >= Len(m.memory) THEN Raise(m, "Endereco de memoria nao alocado")
    ELSE Advance([m EXCEPT !.memory[n + 1] = val])

\* the value is popped before the address is checked
ArmzAt(m, n) ==
    IF m.stack = <<>> THEN Raise(m, EmptyStack)
    ELSE ArmzStore([m EXCEPT !.stack = Popped(@)], n, Top(m.stack))

ExecARMZ(m, args) ==
    IF Len(args) # 1 THEN Raise(m, "ARMZ requer 1 argumento")
    ELSE IF ~IsIntLiteral(args[1]) THEN Raise(m, IntError)
    ELSE ArmzAt(m, int(args[1]))

\* m is the machine after both pops; DIVI raises when b = 0
BinaryPush(m, instr, a, b) ==
    IF instr = OP.DIVI /\ b = 0 THEN Raise(m, "Divisao por zero")
    ELSE Advance([m EXCEPT !.stack = Append(@, BinaryValue(instr, a, b))])

\* a second pop that takes the value popped first as the left operand
BinaryLeftSwapped(m, instr, b) ==
    IF m.stack = <<>> THEN Raise(m, EmptyStack)
    ELSE BinaryPush([m EXCEPT !.stack = Popped(@)], instr, b, Top(m.stack))

\* m is the machine after b = self.pop()
BinaryLeft(m, instr, b) ==
    IF m.stack = <<>> THEN Raise(m, EmptyStack)
    ELSE BinaryPush([m EXCEPT !.stack = Popped(@)], instr, Top(m.stack), b)

\* b = pop(); a = pop(); push(a op b)
ExecBinary(m, instr) ==
    IF m.stack = <<>> THEN Raise(m, EmptyStack)
    ELSE BinaryLeft([m EXCEPT !.stack = Popped(@)], instr, Top(m.stack))

ExecINVR(m) ==
    IF m.stack = <<>> THEN Raise(m, EmptyStack)
    ELSE Advance([m EXCEPT !.stack[Len(m.stack)] = 0 - @])

\* a DSVS that does not jump
ExecDsvsNoJump(m, args) == Advance(m)

\* if not self.jump_to_line(target): raise ...; return True
JumpOr(m, j, cause) == IF j.ok THEN Jumped(m, j.pc) ELSE Raise(m, cause)

ExecDSVS(m, args) ==
    IF Len(args) # 1 THEN Raise(m, "DSVS requer 1 argumento")
    ELSE JumpOr(m, jump_to_line(m, args[1]), "DSVS: label/linha nao encontrado")

\* a DSVF that resolves its target before it looks at the condition
DsvfResolveFirst(m, cond, target) ==
    IF ~jump_to_line(m, target).ok
    THEN Raise(m, "DSVF: label/linha nao encontrado")
    ELSE IF cond # 0 THEN Advance(m)
    ELSE Jumped(m, jump_to_line(m, target).pc)

\* m is the machine after cond = self.pop()
DsvfOn(m, cond, target) ==
    IF cond # 0 THEN Advance(m)
    ELSE JumpOr(m, jump_to_line(m, target), "DSVF: label/linha nao encontrado")

\* the argument count is checked first, then the condition is popped
ExecDSVF(m, args) ==
    IF Len(args) # 1 THEN Raise(m, "DSVF requer 1 argumento")
    ELSE IF m.stack = <<>> THEN Raise(m, EmptyStack)
    ELSE DsvfOn([m EXCEPT !.stack = Popped(@)], Top(m.stack), args[1])

\* an IMPR that takes the value it prints off the stack
ExecImprPop(m) ==
    IF m.stack = <<>> THEN Raise(m, EmptyStack)
    ELSE Advance([m EXCEPT !.out = Append(@, Top(m.stack)),
                           !.stack = Popped(@)])

\* val = self.peek(); print(val)
ExecIMPR(m) ==
    IF m.stack = <<>> THEN Raise(m, EmptyStack)
    ELSE Advance([m EXCEPT !.out = Append(@, Top(m.stack))])

\* the if / elif chain of execute_current on the parsed line
Dispatch(m, instr, args) ==
    CASE instr = <<>> -> Advance(m)
      [] instr = OP.INPP -> Advance(m)
      [] instr = OP.AMEM -> ExecAMEM(m, args)
      [] instr = OP.DMEM -> ExecDMEM(m, args)
      [] instr = OP.PARA -> [m |-> m, ret |-> "False", cause |-> ""]
      [] instr = OP.CRCT -> ExecCRCT(m, args)
      [] instr = OP.CRVL -> ExecCRVL(m, args)
      [] instr = OP.ARMZ -> ExecARMZ(m, args)
      [] instr \in BinaryOps -> ExecBinary(m, instr)
      [] instr = OP.INVR -> ExecINVR(m)
      [] instr = OP.DSVS -> ExecDSVS(m, args)
      [] instr = OP.DSVF -> ExecDSVF(m, args)
      [] instr = OP.NADA -> Advance(m)
      [] instr = OP.IMPR -> ExecIMPR(m)
      [] OTHER -> Raise(m, "Instrucao desconhecida")

DispatchParsed(m, p) == Dispatch(m, p.instr, p.args)

\* raw = self.program.lines[ln] raises KeyError, outside the try block,
\* when the program has lost the line since the tables were built
KeyError == "KeyError"

\* ln is get_current_line_lnum(); last_executed_line = (ln, raw) is set
\* before the try
ExecuteLine(m, lines, ln) ==
    IF ln = None THEN [m |-> m, ret |-> "False", cause |-> ""]
    ELSE IF ln[1] \notin DOMAIN lines THEN Raise(m, KeyError)
    ELSE DispatchParsed([m EXCEPT !.last_executed_line = <<ln[1], lines[ln[1]]>>,
                                  !.trace = Append(@, ln[1])],
                        parse_line_text(lines[ln[1]]))

execute_current(m, lines) == ExecuteLine(m, lines, get_current_line_lnum(m))

----------------------------------------------------------------------------
(* run, debug_start, debug_next, debug_stop *)

NoCode == "Nenhum codigo para executar"

\* the condition of run's while loop
RunCondition(m) == m.running /\ m.pc_index < Len(m.sorted_lines)

\* a run without the finally clause: running stays as the loop left it
RunExitKeeps(m, report) == [m EXCEPT !.result = report]

\* the finally clause of run, and the report of how run ended
RunExit(m, report) == [m EXCEPT !.running = FALSE, !.result = report]

\* self.pc_index = start_idx; self.running = True; then the first test of
\* the loop condition.  result.kind = "running" says control is in the loop
RunFrom(m, start_idx) ==
    IF start_idx = None
    THEN [m EXCEPT !.result = Report("run", "error", None, NoCode)]
    ELSE IF start_idx[1] < Len(m.sorted_lines)
    THEN [m EXCEPT !.pc_index = start_idx[1], !.running = TRUE,
                   !.result = Report("run", "running", None, "")]
    ELSE [m EXCEPT !.pc_index = start_idx[1],
                   !.result = Report("run", "returned", None, "")]

\* m is the machine after reset_machine_state()
RunReset(m, lines) == RunFrom(m, find_pc_for_start(m, lines))

\* run() up to the first test of the loop condition
run_start(m, lines) == RunReset(reset_machine_state(m, lines), lines)

\* a loop that does not break when execute_current returned False
RunAfterNoBreak(e, ln) ==
    IF e.ret = "raise" THEN RunExit(e.m, Report("run", "error", ln, e.cause))
    ELSE IF RunCondition(e.m) THEN e.m
    ELSE RunExit(e.m, Report("run", "returned", None, ""))

\* e is what execute_current did on line ln: break when it returned False,
\* else the loop condition again; an exception leaves through finally
RunAfter(e, ln) ==
    IF e.ret = "raise" THEN RunExit(e.m, Report("run", "error", ln, e.cause))
    ELSE IF e.ret = "False" THEN RunExit(e.m, Report("run", "returned", None, ""))
    ELSE IF RunCondition(e.m) THEN e.m
    ELSE RunExit(e.m, Report("run", "returned", None, ""))

\* one iteration of run's loop
run_iter(m, lines) ==
    RunAfter(execute_current(m, lines), get_current_line_lnum(m))

\* self.pc_index = start_idx; the flags; the first instruction is shown
DebugFrom(m, start_idx) ==
    IF start_idx = None
    THEN [m EXCEPT !.result = Report("debug_start", "error", None, NoCode)]
    ELSE [m EXCEPT !.pc_index = start_idx[1],
                   !.debug_mode = TRUE,
                   !.running = TRUE,
                   !.result = Report("debug_start", "pending",
                                     Some(m.sorted_lines[start_idx[1] + 1]), "")]

DebugReset(m, lines) == DebugFrom(m, find_pc_for_start(m, lines))

debug_start(m, lines) == DebugReset(reset_machine_state(m, lines), lines)

\* self.debug_mode = False; self.running = False
DebugOff(m, report) ==
    [m EXCEPT !.debug_mode = FALSE, !.running = FALSE, !.result = report]

\* a step that keeps the session open after PARA
DebugAfterPara(e, ln) ==
    IF e.ret = "raise"
    THEN [e.m EXCEPT !.result = Report("debug_next", "error", ln, e.cause)]
    ELSE IF e.m.pc_index < Len(e.m.sorted_lines)
    THEN [e.m EXCEPT !.result = Report("debug_next", "pending",
                                       get_current_line_lnum(e.m), "")]
    ELSE DebugOff(e.m, Report("debug_next", "finished", None, ""))

\* a step that reports the end of the program and leaves the flags on
DebugAfterOpenEnd(e, ln) ==
    IF e.ret = "raise"
    THEN [e.m EXCEPT !.result = Report("debug_next", "error", ln, e.cause)]
    ELSE IF e.ret = "False"
    THEN DebugOff(e.m, Report("debug_next", "finished_para", None, ""))
    ELSE IF e.m.pc_index < Len(e.m.sorted_lines)
    THEN [e.m EXCEPT !.result = Report("debug_next", "pending",
                                       get_current_line_lnum(e.m), "")]
    ELSE [e.m EXCEPT !.result = Report("debug_next", "finished", None, "")]

\* e is what execute_current did on line ln; an exception passes through
\* debug_next and leaves the flags as they are
DebugAfter(e, ln) ==
    IF e.ret = "raise"
    THEN [e.m EXCEPT !.result = Report("debug_next", "error", ln, e.cause)]
    ELSE IF e.ret = "False"
    THEN DebugOff(e.m, Report("debug_next", "finished_para", None, ""))
    ELSE IF e.m.pc_index < Len(e.m.sorted_lines)
    THEN [e.m EXCEPT !.result = Report("debug_next", "pending",
                                       get_current_line_lnum(e.m), "")]
    ELSE DebugOff(e.m, Report("debug_next", "finished", None, ""))

\* a step that does not look at the flags
debug_next_unchecked(m, lines) ==
    IF m.pc_index >= Len(m.sorted_lines)
    THEN DebugOff(m, Report("debug_next", "finished", None, ""))
    ELSE DebugAfter(execute_current(m, lines), get_current_line_lnum(m))

debug_next(m, lines) ==
    IF ~m.debug_mode \/ ~m.running
    THEN [m EXCEPT !.result = Report("debug_next", "rejected", None,
                                     "Nao esta em modo debug")]
    ELSE IF m.pc_index >= Len(m.sorted_lines)
    THEN DebugOff(m, Report("debug_next", "finished", None, ""))
    ELSE DebugAfter(execute_current(m, lines), get_current_line_lnum(m))

\* a stop that also empties the stack and the memory
debug_stop_discard(m) ==
    DebugOff([m EXCEPT !.stack = <<>>, !.memory = <<>>],
             Report("debug_stop", "stopped", None, ""))

debug_stop(m) == DebugOff(m, Report("debug_stop", "stopped", None, ""))

----------------------------------------------------------------------------
(* Program texts.  The texts are built from the opcode table, so that what *)
(* the machine does with them is decided by the parser.                    *)

Sp == <<" ">>

RECURSIVE NatText(_)
NatText(n) ==
    IF n < 10 THEN <<DigitSeq[n + 1]>>
    ELSE NatText(n \div 10) \o <<DigitSeq[(n % 10) + 1]>>

\* the decimal text of an integer, as str(v) writes it
IntText(v) == IF v < 0 THEN <<"-">> \o NatText(0 - v) ELSE NatText(v)

\* "OPCODE v", "OPCODE token", "label: text"
InstrInt(op, v) == op \o Sp \o IntText(v)
InstrTok(op, tok) == op \o Sp \o tok
Labelled(label, text) == label \o <<":", " ">> \o text

L1 == <<"L","1">>
L9 == <<"L","9">>
Lab70 == <<"7","0">>
Lab30 == <<"3","0">>

\* a program whose texts stand on the lines 10, 20, 30, ...
Prog(texts) == [ln \in {10 * i : i \in 1..Len(texts)} |-> texts[ln \div 10]]

EmptyProgram == Prog(<<>>)

\* the start rule: INPP in the middle, written in lower case, twice, absent
StartPrograms ==
    {Prog(<<InstrInt(OP.CRCT, 1), OP.INPP, InstrInt(OP.CRCT, 2), OP.PARA>>),
     Prog(<<OP.NADA, <<"i","n","p","p">>, InstrInt(OP.CRCT, 3)>>),
     Prog(<<InstrInt(OP.CRCT, 1), Labelled(L1, OP.INPP), OP.INPP>>),
     Prog(<<OP.NADA, OP.PARA, OP.NADA>>),
     Prog(<<<<"c","r","c","t"," ","1">>, <<"P","a","r","a">>>>),
     EmptyProgram}

\* jump targets: a line number, a label, a label of digits that is no line
\* number, a line number that is also a label of another line, no target
JumpPrograms ==
    {Prog(<<InstrTok(OP.DSVS, Lab70), OP.NADA, Labelled(Lab70, OP.PARA)>>),
     Prog(<<InstrTok(OP.DSVS, Lab30), Labelled(Lab30, OP.NADA), OP.PARA>>),
     Prog(<<InstrTok(OP.DSVS, L1), InstrInt(OP.CRCT, 1), Labelled(L1, OP.PARA)>>),
     Prog(<<InstrTok(OP.DSVS, L9), OP.PARA>>),
     Prog(<<InstrTok(OP.DSVS, IntText(-10)), OP.PARA>>),
     Prog(<<OP.DSVS, OP.PARA>>),
     Prog(<<InstrTok(OP.DSVF, L1), Labelled(L1, OP.PARA)>>),
     Prog(<<Labelled(L1, InstrInt(OP.CRCT, 1)), InstrTok(OP.DSVS, L1)>>),
     Prog(<<InstrTok(OP.DSVS, L1), Labelled(L1, InstrInt(OP.CRCT, 1)),
            Labelled(L1, OP.PARA)>>),
     Prog(<<InstrTok(OP.DSVS, Lab70), Labelled(Lab70, OP.NADA),
            Labelled(Lab70, OP.PARA)>>)}

CondValues == {-2, 0, 1}

\* CRCT c; DSVF target; NADA; L1: PARA with every kind of target
DsvfPrograms ==
    {Prog(<<InstrInt(OP.CRCT, c), t, OP.NADA, Labelled(L1, OP.PARA),
            Labelled(Lab70, OP.NADA)>>) :
        c \in CondValues,
        t \in {InstrTok(OP.DSVF, L1), InstrTok(OP.DSVF, IntText(40)),
               InstrTok(OP.DSVF, L9), InstrTok(OP.DSVF, Lab70), OP.DSVF,
               InstrTok(OP.DSVF, L1) \o Sp \o L1}}

MemSizes == 0..2

MemoryPrograms ==
    {Prog(<<InstrInt(OP.AMEM, n), InstrInt(OP.DMEM, n), OP.PARA>>) : n \in MemSizes}
    \cup
    {Prog(<<InstrInt(OP.AMEM, 1), InstrInt(OP.CRCT, 5), InstrInt(OP.ARMZ, 0),
            InstrInt(OP.AMEM, n), InstrInt(OP.DMEM, n), InstrInt(OP.CRVL, 0)>>) :
        n \in MemSizes}
    \cup
    {Prog(<<InstrInt(OP.CRCT, 3), InstrInt(OP.AMEM, 2), InstrInt(OP.CRCT, 5),
            InstrInt(OP.ARMZ, 0), InstrInt(OP.AMEM, n), InstrInt(OP.DMEM, n)>>) :
        n \in MemSizes}
    \cup
    {Prog(<<InstrInt(OP.AMEM, 1), InstrInt(OP.CRVL, 5), OP.PARA>>),
     Prog(<<InstrInt(OP.AMEM, 1), InstrInt(OP.CRVL, -1), OP.PARA>>),
     Prog(<<InstrInt(OP.AMEM, 1), InstrInt(OP.CRVL, 1), OP.PARA>>),
     Prog(<<InstrInt(OP.AMEM, 2), InstrInt(OP.CRCT, 3), InstrInt(OP.ARMZ, 1),
            InstrInt(OP.CRVL, 1), InstrInt(OP.CRVL, 0)>>),
     Prog(<<InstrInt(OP.AMEM, 1), InstrInt(OP.CRCT, 3), InstrInt(OP.ARMZ, 5), OP.PARA>>),
     Prog(<<InstrInt(OP.AMEM, 1), InstrInt(OP.CRCT, 3), InstrInt(OP.ARMZ, -1), OP.PARA>>),
     Prog(<<InstrInt(OP.AMEM, 1), InstrInt(OP.ARMZ, 0), OP.PARA>>),
     Prog(<<InstrInt(OP.AMEM, 1), InstrInt(OP.ARMZ, 5), OP.PARA>>),
     Prog(<<InstrInt(OP.AMEM, 2), InstrInt(OP.DMEM, 3), OP.PARA>>),
     Prog(<<InstrInt(OP.AMEM, 2), InstrInt(OP.DMEM, -1), OP.PARA>>),
     Prog(<<InstrInt(OP.AMEM, -1), OP.PARA>>),
     Prog(<<OP.AMEM, OP.PARA>>),
     Prog(<<InstrTok(OP.AMEM, L1), OP.PARA>>),
     Prog(<<OP.CRCT, OP.PARA>>),
     Prog(<<InstrInt(OP.CRCT, 1) \o Sp \o IntText(2), OP.PARA>>),
     Prog(<<OP.CRCT \o Sp \o Sp \o <<"+", "1", "_", "0">>, OP.PARA>>)}

PrintValues == {-3, 0, 7}

ImprPrograms ==
    {Prog(<<InstrInt(OP.CRCT, v), OP.IMPR, OP.PARA>>) : v \in PrintValues}
    \cup {Prog(<<OP.IMPR, OP.PARA>>),
          Prog(<<InstrInt(OP.CRCT, 4), OP.IMPR, InstrInt(OP.CRCT, 5), OP.IMPR>>)}

Operands == {-7, 0, 2}

\* CRCT 9; CRCT a; CRCT b; op for every binary opcode, and the underflows
BinaryPrograms ==
    {Prog(<<InstrInt(OP.CRCT, 9), InstrInt(OP.CRCT, a), InstrInt(OP.CRCT, b), op>>) :
        a \in Operands, b \in Operands, op \in BinaryOps}
    \cup {Prog(<<InstrInt(OP.CRCT, 7), InstrInt(OP.CRCT, -2), OP.DIVI>>)}
    \cup {Prog(<<InstrInt(OP.CRCT, 1), op, OP.PARA>>) : op \in BinaryOps}
    \cup {Prog(<<op, OP.PARA>>) : op \in BinaryOps \cup {OP.INVR}}
    \cup {Prog(<<InstrInt(OP.CRCT, a), OP.INVR>>) : a \in Operands}

\* lines without an opcode, with an unknown one, with a colon that is no label
OddPrograms ==
    {Prog(<<<<"F","O","O">>, OP.PARA>>),
     Prog(<<InstrInt(<<"F","O","O">>, 1), OP.PARA>>),
     Prog(<<L1 \o <<":">>, OP.PARA>>),
     Prog(<<<<>>, OP.PARA>>),
     Prog(<<<<"L"," ","1",":"," ","N","A","D","A">>, OP.PARA>>),
     Prog(<<<<":">> \o Sp \o OP.NADA, OP.PARA>>)}

\* line numbers below zero, which load_from_file accepts: a program that
\* starts on line -1, one that halts there, and a jump to line -1
NegativePrograms ==
    {Put(Put(EmptyDict, -1, OP.NADA), 0, InstrInt(OP.CRCT, 1)),
     Put(EmptyDict, -1, OP.PARA),
     Put(Put(EmptyDict, -1, InstrInt(OP.CRCT, 0)), 0,
         InstrTok(OP.DSVF, IntText(-1)))}

Programs ==
    StartPrograms \cup JumpPrograms \cup DsvfPrograms \cup MemoryPrograms
    \cup ImprPrograms \cup BinaryPrograms \cup OddPrograms
    \cup NegativePrograms

----------------------------------------------------------------------------
(* The files of a session *)

\* the file f when the session starts: a blank line, a line without a
\* number, a line number without text, repeated line numbers and a line
\* number below zero; it loads as -1 dsvs  L1, 1 L1: PARA
FirstFile ==
    <<<<"1"," ","I","M","P","R">>, <<>>, <<"x"," ","C","R","C","T"," ","1">>,
      <<"-","1">>, <<"-","1"," ","d","s","v","s"," "," ","L","1">>,
      <<" "," ","1"," "," "," ","L","1",":"," ","P","A","R","A"," ">>>>

\* MepaProgram() and the disk of a new session
NewFiles ==
    [modified |-> FALSE, filename |-> None, disk |-> [n \in {"f"} |-> FirstFile]]

----------------------------------------------------------------------------
(* State *)

VARIABLES
    program,    \* MepaProgram.lines: line number -> raw text
    machine,    \* the MepaMachine the caller drives
    ctl,        \* where the caller is: "prompt" (between calls), "run"
                \* (inside the while loop of run), "question" (a handler
                \* of the REPL waits at its input()) or "exited" (the REPL
                \* has ended)
    twin,       \* a second MepaMachine on the same program, single-stepped
                \* while machine runs (SpecEq only)
    files,      \* MepaProgram.modified and .filename, and the files on disk
    waiting     \* the handler that waits at its question: None, or the
                \* command and, for LOAD, the file name typed with it

vars == <<program, machine, ctl, twin, files, waiting>>

\* where control is after run_start / run_iter
CtlOf(m) ==
    IF m.result.op = "run" /\ m.result.kind = "running" THEN "run" ELSE "prompt"

\* the session capped by MaxSteps
CanStep(m) == Len(m.trace) < MaxSteps

----------------------------------------------------------------------------
(* The machine's methods, called on a loaded program (SpecEngine) *)

\* MepaMachine(program) of a program loaded from a file
InitEngine ==
    /\ program \in Programs
    /\ machine = NewMachine(program)
    /\ ctl = "prompt"
    /\ twin = machine
    /\ files = NewFiles
    /\ waiting = None

Run ==
    /\ ctl = "prompt"
    /\ machine' = run_start(machine, program)
    /\ ctl' = CtlOf(machine')
    /\ UNCHANGED <<program, twin, files, waiting>>

RunStep ==
    /\ ctl = "run"
    /\ CanStep(machine)
    /\ machine' = run_iter(machine, program)
    /\ ctl' = CtlOf(machine')
    /\ UNCHANGED <<program, twin, files, waiting>>

DebugStart ==
    /\ ctl = "prompt"
    /\ machine' = debug_start(machine, program)
    /\ UNCHANGED <<program, ctl, twin, files, waiting>>

DebugNext ==
    /\ ctl = "prompt"
    /\ CanStep(machine)
    /\ machine' = debug_next(machine, program)
    /\ UNCHANGED <<program, ctl, twin, files, waiting>>

DebugStop ==
    /\ ctl = "prompt"
    /\ machine' = debug_stop(machine)
    /\ UNCHANGED <<program, ctl, twin, files, waiting>>

NextEngine == Run \/ RunStep \/ DebugStart \/ DebugNext \/ DebugStop

SpecEngine == InitEngine /\ [][NextEngine]_vars

----------------------------------------------------------------------------
(* run() and debug_start() + debug_next() ... on the same program (SpecEq): *)
(* machine is run, twin is single-stepped until it halts or fails          *)

EqStart ==
    /\ ctl = "prompt"
    /\ machine.result.op = "init"
    /\ machine' = run_start(machine, program)
    /\ twin' = debug_start(twin, program)
    /\ ctl' = CtlOf(machine')
    /\ UNCHANGED <<program, files, waiting>>

EqRunStep ==
    /\ ctl = "run"
    /\ CanStep(machine)
    /\ machine' = run_iter(machine, program)
    /\ ctl' = CtlOf(machine')
    /\ UNCHANGED <<program, twin, files, waiting>>

EqDebugNext ==
    /\ twin.result.kind = "pending"
    /\ CanStep(twin)
    /\ twin' = debug_next(twin, program)
    /\ UNCHANGED <<program, machine, ctl, files, waiting>>

NextEq == EqStart \/ EqRunStep \/ EqDebugNext

SpecEq == InitEngine /\ [][NextEq]_vars

----------------------------------------------------------------------------
(* MepaProgram: the methods the REPL edits the program with.  The lines   *)
(* are the variable program; the fields modified and filename are kept,   *)
(* with the files on disk, in the record fs:                               *)
(*   modified  self.modified                                               *)
(*   filename  self.filename: None or Some(name)                           *)
(*   disk      file name -> the lines of the file, for the files there are *)

\* self.lines[lineno] = raw_text.strip()
set_line(lines, lineno, raw_text) == Put(lines, lineno, strip(raw_text))

\* del self.lines[lineno], for a line that exists
del_line(lines, lineno) == [ln \in DOMAIN lines \ {lineno} |-> lines[ln]]

\* every line n with li <= n <= lf is deleted
del_range(lines, li, lf) ==
    [ln \in {n \in DOMAIN lines : ~(li <= n /\ n <= lf)} |-> lines[ln]]

\* parts = line.strip().split(None, 1) of one line of the file: a line whose
\* first token is no integer is skipped, a line number without text gets ""
LoadParts(acc, parts) ==
    IF parts = <<>> \/ ~IsIntLiteral(parts[1]) THEN acc
    ELSE Put(acc, int(parts[1]), IF Len(parts) > 1 THEN parts[2] ELSE <<>>)

\* the loop of load_from_file over the lines of the file
RECURSIVE load_lines(_, _)
load_lines(raw, acc) ==
    IF raw = <<>> THEN acc
    ELSE load_lines(Tail(raw), LoadParts(acc, split1(strip(Head(raw)))))

\* self.lines.clear(), then the loop
load_from_file(raw) == load_lines(raw, EmptyDict)

\* self.filename = path; self.modified = False, after the loop
Loaded(fs, path) == [fs EXCEPT !.filename = Some(path), !.modified = FALSE]

\* self.modified = True, in set_line and in a del_line / del_range that
\* removed something
Touched(fs) == [fs EXCEPT !.modified = TRUE]

\* f.write(f"{ln} {text}\n") for every line in ascending order
FileText(lines, order) ==
    [i \in 1..Len(order) |-> IntText(order[i]) \o Sp \o lines[order[i]]]

\* save_to_file() raises when no file name is known
SaveFails(fs) == fs.filename = None

\* save_to_file() with a known file name: the file is rewritten
save_to_file(fs, lines) ==
    [fs EXCEPT !.disk = Put(@, fs.filename[1],
                            FileText(lines, sorted(DOMAIN lines))),
               !.modified = FALSE]

\* MepaProgram.clear()
clear(lines) == EmptyDict
Cleared(fs) == [fs EXCEPT !.modified = FALSE, !.filename = None]

----------------------------------------------------------------------------
(* The REPL commands.  Each is the whole handler of repl(): the debug      *)
(* interruption before LOAD, RUN, INS and DEL, the command's own checks,   *)
(* the call of the machine and the rebuild_metadata() behind an edit.      *)

Rejected(m, op, cause) == [m EXCEPT !.result = Report(op, "rejected", None, cause)]

\* a REPL that lets a command through without ending the debug session
InterruptNever(m) == m

\* if cmd in [LOAD, RUN, INS, DEL, EXIT] and machine.debug_mode: debug_stop()
Interrupt(m) == IF m.debug_mode THEN debug_stop(m) ELSE m

\* the report of a command that went through the interruption
Interrupted(after, before) ==
    [after EXCEPT !.result.stopped_debug = before.debug_mode]

repl_run(m, lines) ==
    Interrupted(IF DOMAIN lines = {}
                THEN Rejected(Interrupt(m), "RUN", "nenhum codigo na memoria")
                ELSE run_start(Interrupt(m), lines),
                m)

repl_debug(m, lines) ==
    IF DOMAIN lines = {} THEN Rejected(m, "DEBUG", "nenhum codigo na memoria")
    ELSE debug_start(m, lines)

repl_next(m, lines) ==
    IF ~m.debug_mode THEN Rejected(m, "NEXT", "nao esta em modo de depuracao")
    ELSE debug_next(m, lines)

repl_stop(m) ==
    IF ~m.debug_mode THEN Rejected(m, "STOP", "nao esta em modo de depuracao")
    ELSE debug_stop(m)

\* the program after INS lineno text
ins_lines(lines, lineno, text) ==
    IF lineno < 0 THEN lines ELSE set_line(lines, lineno, text)

\* the machine after INS: rebuild_metadata() on the edited program
repl_ins(m, lines, lineno, text) ==
    Interrupted(IF lineno < 0
                THEN Rejected(Interrupt(m), "INS", "numero de linha negativo")
                ELSE [rebuild_metadata(Interrupt(m), set_line(lines, lineno, text))
                        EXCEPT !.result = Report("INS", "ok", Some(lineno), "")],
                m)

\* the program after DEL lineno
del_lines(lines, lineno) ==
    IF lineno \in DOMAIN lines THEN del_line(lines, lineno) ELSE lines

repl_del(m, lines, lineno) ==
    Interrupted(IF lineno \in DOMAIN lines
                THEN [rebuild_metadata(Interrupt(m), del_line(lines, lineno))
                        EXCEPT !.result = Report("DEL", "ok", Some(lineno), "")]
                ELSE Rejected(Interrupt(m), "DEL", "linha inexistente"),
                m)

\* the program after DEL li lf
del_range_lines(lines, li, lf) ==
    IF li > lf THEN lines ELSE del_range(lines, li, lf)

repl_del_range(m, lines, li, lf) ==
    Interrupted(IF li > lf
                THEN Rejected(Interrupt(m), "DEL", "intervalo invalido")
                ELSE IF del_range(lines, li, lf) = lines
                THEN Rejected(Interrupt(m), "DEL", "nenhuma linha no intervalo")
                ELSE [rebuild_metadata(Interrupt(m), del_range(lines, li, lf))
                        EXCEPT !.result = Report("DEL", "ok", Some(li), "")],
                m)

\* LOAD and EXIT ask whether to save when there are unsaved changes: the
\* handler, which has gone through the interruption, waits at input()
\* until the question is answered
Asks(fs) == fs.modified

\* the machine while the handler of op waits
Asking(m, op) ==
    Interrupted([Interrupt(m) EXCEPT !.result = Report(op, "asking", None, "")],
                m)

\* the answer is "s", anything else ("n"), Ctrl-C, which leaves the handler
\* through the KeyboardInterrupt clause of the loop, or the end of the
\* input, which ends the REPL through its EOFError clause
Answers == {"s", "n", "interrupt", "eof"}

Unanswered(answer) == answer \in {"interrupt", "eof"}

\* where the REPL is after the answer to the question of LOAD
AskedCtl(answer) == IF answer = "eof" THEN "exited" ELSE "prompt"

\* what the loop prints for the exception of an unanswered question
UnansweredKind(answer) == IF answer = "eof" THEN "exited" ELSE "interrupted"

\* the report of the handler that waited keeps what its interruption did
Answered(after, before) ==
    [after EXCEPT !.result.stopped_debug = before.result.stopped_debug]

\* the files after the answer: "s" saves the program as it is by then; a
\* save without a file name prints an error and the handler goes on
AskedSave(fs, lines, answer) ==
    IF answer = "s" /\ ~SaveFails(fs) THEN save_to_file(fs, lines) ELSE fs

\* program.load_from_file(filename) and machine.rebuild_metadata()
LoadLines(lines, fs, name) ==
    IF name \in DOMAIN fs.disk THEN load_from_file(fs.disk[name]) ELSE lines

LoadFiles(fs, name) ==
    IF name \in DOMAIN fs.disk THEN Loaded(fs, name) ELSE fs

LoadMachine(m, fs, name) ==
    IF name \in DOMAIN fs.disk
    THEN [rebuild_metadata(m, load_from_file(fs.disk[name]))
            EXCEPT !.result = Report("LOAD", "ok", None, "")]
    ELSE Rejected(m, "LOAD", "arquivo nao encontrado")

\* LOAD name without unsaved changes: nothing is asked
repl_load(m, fs, name) == Interrupted(LoadMachine(Interrupt(m), fs, name), m)

\* the program, the files and the machine after the answer to LOAD name
load_program(lines, fs, name, answer) ==
    IF Unanswered(answer) THEN lines
    ELSE LoadLines(lines, AskedSave(fs, lines, answer), name)

load_files(lines, fs, name, answer) ==
    IF Unanswered(answer) THEN fs
    ELSE LoadFiles(AskedSave(fs, lines, answer), name)

answer_load(m, lines, fs, name, answer) ==
    Answered(IF Unanswered(answer)
             THEN [m EXCEPT !.result =
                        Report("LOAD", UnansweredKind(answer), None, "")]
             ELSE LoadMachine(m, AskedSave(fs, lines, answer), name),
             m)

\* EXIT without unsaved changes: the REPL ends
repl_exit(m) ==
    Interrupted([Interrupt(m) EXCEPT !.result = Report("EXIT", "exited", None, "")],
                m)

\* the answer to EXIT: the REPL ends unless the question was left with
\* Ctrl-C
exit_files(lines, fs, answer) ==
    IF Unanswered(answer) THEN fs ELSE AskedSave(fs, lines, answer)

exit_ctl(answer) == IF answer = "interrupt" THEN "prompt" ELSE "exited"

answer_exit(m, answer) ==
    Answered([m EXCEPT !.result =
                Report("EXIT",
                       IF answer = "interrupt" THEN "interrupted" ELSE "exited",
                       None, "")],
             m)

\* SAVE: refused without lines, fails without a file name
save_files(lines, fs) ==
    IF DOMAIN lines = {} \/ SaveFails(fs) THEN fs ELSE save_to_file(fs, lines)

repl_save(m, lines, fs) ==
    IF DOMAIN lines = {} THEN Rejected(m, "SAVE", "nenhum codigo na memoria")
    ELSE IF SaveFails(fs)
    THEN [m EXCEPT !.result = Report("SAVE", "error", None,
                                     "Nome de arquivo nao especificado")]
    ELSE [m EXCEPT !.result = Report("SAVE", "ok", None, "")]

\* the files after INS, DEL lineno and DEL li lf
ins_files(fs, lineno) == IF lineno < 0 THEN fs ELSE Touched(fs)

del_files(lines, fs, lineno) ==
    IF lineno \in DOMAIN lines THEN Touched(fs) ELSE fs

del_range_files(lines, fs, li, lf) ==
    IF li > lf \/ del_range(lines, li, lf) = lines THEN fs ELSE Touched(fs)

----------------------------------------------------------------------------
(* What the user of the REPL types (Spec) *)

\* the line numbers typed after INS and DEL (and -1, for the INS that is
\* rejected)
EditLines == {1, 2}

EditTexts ==
    {InstrInt(OP.CRCT, 1),
     Sp \o Labelled(L1, <<"i","n","p","p">>) \o Sp}

\* the file names typed after LOAD: one file that exists and one that does
\* not
FileNames == {"f", "g"}

----------------------------------------------------------------------------
(* The REPL on a new MepaProgram and MepaMachine (Spec) *)

Init ==
    /\ program = EmptyDict
    /\ machine = NewMachine(program)
    /\ ctl = "prompt"
    /\ twin = machine
    /\ files = NewFiles
    /\ waiting = None

CmdLoad ==
    /\ ctl = "prompt"
    /\ \E name \in FileNames :
        IF Asks(files)
        THEN /\ machine' = Asking(machine, "LOAD")
             /\ ctl' = "question"
             /\ waiting' = <<"LOAD", name>>
             /\ UNCHANGED <<program, files>>
        ELSE /\ program' = LoadLines(program, files, name)
             /\ files' = LoadFiles(files, name)
             /\ machine' = repl_load(machine, files, name)
             /\ UNCHANGED <<ctl, waiting>>
    /\ UNCHANGED twin

\* the question of LOAD is answered
AnswerLoad ==
    /\ ctl = "question"
    /\ waiting[1] = "LOAD"
    /\ \E answer \in Answers :
        /\ program' = load_program(program, files, waiting[2], answer)
        /\ files' = load_files(program, files, waiting[2], answer)
        /\ machine' = answer_load(machine, program, files, waiting[2], answer)
        /\ ctl' = AskedCtl(answer)
    /\ waiting' = None
    /\ UNCHANGED twin

CmdIns ==
    /\ ctl = "prompt"
    /\ \E lineno \in EditLines \cup {-1}, text \in EditTexts :
        /\ program' = ins_lines(program, lineno, text)
        /\ files' = ins_files(files, lineno)
        /\ machine' = repl_ins(machine, program, lineno, text)
    /\ UNCHANGED <<ctl, twin, waiting>>

CmdDel ==
    /\ ctl = "prompt"
    /\ \E lineno \in EditLines :
        /\ program' = del_lines(program, lineno)
        /\ files' = del_files(program, files, lineno)
        /\ machine' = repl_del(machine, program, lineno)
    /\ UNCHANGED <<ctl, twin, waiting>>

CmdDelRange ==
    /\ ctl = "prompt"
    /\ \E li \in EditLines, lf \in EditLines :
        /\ program' = del_range_lines(program, li, lf)
        /\ files' = del_range_files(program, files, li, lf)
        /\ machine' = repl_del_range(machine, program, li, lf)
    /\ UNCHANGED <<ctl, twin, waiting>>

CmdExit ==
    /\ ctl = "prompt"
    /\ IF Asks(files)
       THEN /\ machine' = Asking(machine, "EXIT")
            /\ ctl' = "question"
            /\ waiting' = <<"EXIT">>
       ELSE /\ machine' = repl_exit(machine)
            /\ ctl' = "exited"
            /\ UNCHANGED waiting
    /\ UNCHANGED <<program, twin, files>>

\* the question of EXIT is answered
AnswerExit ==
    /\ ctl = "question"
    /\ waiting[1] = "EXIT"
    /\ \E answer \in Answers :
        /\ files' = exit_files(program, files, answer)
        /\ machine' = answer_exit(machine, answer)
        /\ ctl' = exit_ctl(answer)
    /\ waiting' = None
    /\ UNCHANGED <<program, twin>>

\* the input ends at the prompt: the EOFError clause of the loop ends the
\* REPL; no handler is entered, a debug session is left as it is and
\* nothing is asked.  (Ctrl-C at the prompt changes nothing.)
EndOfInput ==
    /\ ctl = "prompt"
    /\ ctl' = "exited"
    /\ UNCHANGED <<program, machine, twin, files, waiting>>

CmdSave ==
    /\ ctl = "prompt"
    /\ files' = save_files(program, files)
    /\ machine' = repl_save(machine, program, files)
    /\ UNCHANGED <<program, ctl, twin, waiting>>

CmdRun ==
    /\ ctl = "prompt"
    /\ machine' = repl_run(machine, program)
    /\ ctl' = CtlOf(machine')
    /\ UNCHANGED <<program, twin, files, waiting>>

CmdDebug ==
    /\ ctl = "prompt"
    /\ machine' = repl_debug(machine, program)
    /\ UNCHANGED <<program, ctl, twin, files, waiting>>

CmdNext ==
    /\ ctl = "prompt"
    /\ CanStep(machine)
    /\ machine' = repl_next(machine, program)
    /\ UNCHANGED <<program, ctl, twin, files, waiting>>

CmdStop ==
    /\ ctl = "prompt"
    /\ machine' = repl_stop(machine)
    /\ UNCHANGED <<program, ctl, twin, files, waiting>>

Next ==
    \/ CmdLoad \/ AnswerLoad \/ CmdIns \/ CmdDel \/ CmdDelRange \/ CmdSave
    \/ CmdExit \/ AnswerExit \/ EndOfInput
    \/ CmdRun \/ RunStep \/ CmdDebug \/ CmdNext \/ CmdStop

Spec == Init /\ [][Next]_vars

----------------------------------------------------------------------------
(* The REPL's objects driven from outside the REPL as well (SpecApi):      *)
(* MepaProgram.clear(), which no command of the REPL calls, empties the    *)
(* program and leaves the machine and its tables as they are.  It can be   *)
(* called whenever the REPL has not ended: between two commands, while a   *)
(* handler waits at its question and between two instructions of a run.    *)

Clear ==
    /\ ctl # "exited"
    /\ program' = clear(program)
    /\ files' = Cleared(files)
    /\ UNCHANGED <<machine, ctl, twin, waiting>>

NextApi == Next \/ Clear

SpecApi == Init /\ [][NextApi]_vars

----------------------------------------------------------------------------
(* Properties.  The controller states of the debugger are read off the     *)
(* flags: DebugPaused is debug_mode and running, every other state at the  *)
(* prompt (Idle, Halted) has both flags false.                             *)

Paused(m) == m.debug_mode /\ m.running

\* the line the machine stands on and what is written there
HasLine == get_current_line_lnum(machine) # None
CurLine == get_current_line_lnum(machine)[1]
CurInstr == parse_line_text(program[CurLine])

\* this step entered execute_current on the current line
Executed == HasLine /\ machine'.trace = Append(machine.trace, CurLine)

\* this step executed the current line and no error was reported
Succeeded == Executed /\ machine'.result.kind # "error"

\* everything but the flags and the report is as it was
SameData(m1, m2) ==
    /\ m1.stack = m2.stack
    /\ m1.memory = m2.memory
    /\ m1.pc_index = m2.pc_index
    /\ m1.out = m2.out
    /\ m1.trace = m2.trace
    /\ m1.labels = m2.labels
    /\ m1.sorted_lines = m2.sorted_lines
    /\ m1.line_index_map = m2.line_index_map

\* the lines of the program whose opcode is INPP, and the line the start
\* rule names for a program with lines
InppLines ==
    {ln \in DOMAIN program : parse_line_text(program[ln]).instr = OP.INPP}
StartLine ==
    IF InppLines # {} THEN Least(InppLines) ELSE Least(DOMAIN program)

\* run() or debug_start() has just done its start sequence
JustStarted ==
    \/ machine.result.op = "debug_start"
    \/ machine.result.op = "run" /\ machine.trace = <<>>

\* C1: after the start sequence of run() or debug_start() the stack and the
\* memory are empty; on a program without lines the start has failed with
\* the empty-program error and nothing was executed; otherwise the program
\* counter is on the first line whose opcode is INPP, and on the first line
\* of the program when no line has that opcode.
C1_StartRule ==
    JustStarted =>
        /\ machine.stack = <<>>
        /\ machine.memory = <<>>
        /\ machine.trace = <<>>
        /\ IF DOMAIN program = {}
           THEN /\ machine.result.kind = "error"
                /\ machine.result.cause = NoCode
                /\ ~machine.running
                /\ ~machine.debug_mode
           ELSE /\ machine.result.kind # "error"
                /\ get_current_line_lnum(machine) = Some(StartLine)

\* a debug session started on an INPP that is not the first line
C1_Witness ==
    /\ machine.result.op = "debug_start"
    /\ machine.result.kind = "pending"
    /\ machine.pc_index = 1
    /\ InppLines # {}

\* the lines a jump token names: the line of that number, or a line that
\* declares the token as its label
NamedBy(tok) ==
    {ln \in DOMAIN program :
        \/ IsIntLiteral(tok) /\ int(tok) = ln
        \/ parse_line_text(program[ln]).label = tok}

\* the current line is a jump that is taken: DSVS, or DSVF on a zero
JumpTaken ==
    \/ CurInstr.instr = OP.DSVS
    \/ /\ CurInstr.instr = OP.DSVF
       /\ machine.stack # <<>>
       /\ Top(machine.stack) = 0

\* C2: a successfully executed instruction moves the program counter one
\* position forward, except PARA (the counter stays and the execution ends)
\* and a taken jump, DSVS or DSVF on a zero (the counter is the index of a
\* line the target names).
C2_CounterAdvance ==
    [][Succeeded =>
        IF CurInstr.instr = OP.PARA
        THEN /\ machine'.pc_index = machine.pc_index
             /\ ~machine'.running
        ELSE IF JumpTaken
        THEN \E ln \in NamedBy(CurInstr.args[1]) :
                machine'.pc_index = machine.line_index_map[ln]
        ELSE machine'.pc_index = machine.pc_index + 1]_vars

\* the line executed last, and what is written there
LastLine == machine.trace[Len(machine.trace)]
LastInstr == parse_line_text(program[LastLine])

\* a DSVF has just jumped away from the next line
C2_Witness ==
    /\ machine.trace # <<>>
    /\ machine.result.kind \in {"pending", "running"}
    /\ LastInstr.instr = OP.DSVF
    /\ machine.pc_index # machine.line_index_map[LastLine] + 1

\* the line a jump token stands for when it is tried as a line number of
\* the program first and as a label of the label table second
AsLineNumber(tok) ==
    IF IsIntLiteral(tok) /\ int(tok) \in DOMAIN program
    THEN Some(int(tok)) ELSE None
ResolvedLine(tok) ==
    IF AsLineNumber(tok) # None THEN AsLineNumber(tok)
    ELSE IF tok \in DOMAIN machine.labels THEN Some(machine.labels[tok])
    ELSE None

\* C3: the target of a taken jump (DSVS, or DSVF on a zero) is tried as a
\* line number of the program and then as a label of the label table: the
\* counter becomes the index of the line found, and the jump fails only
\* when the token is neither.
C3_JumpResolution ==
    [][(Executed /\ JumpTaken /\ Len(CurInstr.args) = 1) =>
        IF ResolvedLine(CurInstr.args[1]) # None
        THEN /\ machine'.result.kind # "error"
             /\ machine'.pc_index =
                    machine.line_index_map[ResolvedLine(CurInstr.args[1])[1]]
        ELSE machine'.result.kind = "error"]_vars

\* the current line is a DSVF and the top of the stack is not zero
DsvfNonZero ==
    /\ CurInstr.instr = OP.DSVF
    /\ machine.stack # <<>>
    /\ Top(machine.stack) # 0

\* the step popped the stack and moved the counter forward by one, and that
\* is all it did to the data of the machine
FellThrough ==
    /\ machine'.result.kind # "error"
    /\ machine'.stack = Popped(machine.stack)
    /\ machine'.pc_index = machine.pc_index + 1
    /\ machine'.memory = machine.memory
    /\ machine'.out = machine.out
    /\ machine'.labels = machine.labels

\* C4 as stated: DSVF on a non-zero top of the stack pops it and falls
\* through to the next line, whatever its target is: resolvable,
\* unresolvable or absent.
C4_FallThroughAnyTarget ==
    [][(Executed /\ DsvfNonZero) => FellThrough]_vars

\* C4: DSVF with exactly one argument on a non-zero top of the stack pops it
\* and falls through to the next line whether the target can be resolved or
\* not; with no argument, or more than one, the step fails before anything
\* is popped.
C4_FallThrough ==
    [][(Executed /\ DsvfNonZero) =>
        IF Len(CurInstr.args) = 1 THEN FellThrough
        ELSE /\ machine'.result.kind = "error"
             /\ machine'.result.cause = "DSVF requer 1 argumento"
             /\ machine'.stack = machine.stack
             /\ machine'.pc_index = machine.pc_index]_vars

\* a DSVF whose target names no line has just fallen through
C4_Witness ==
    /\ machine.trace # <<>>
    /\ machine.result.kind \in {"pending", "running"}
    /\ LastInstr.instr = OP.DSVF
    /\ Len(LastInstr.args) = 1
    /\ NamedBy(LastInstr.args[1]) = {}
    /\ machine.pc_index = machine.line_index_map[LastLine] + 1

\* C5: a debug_next() accepted in DebugPaused executes exactly one
\* instruction, the one on the current line; when no error is reported and
\* the instruction was PARA, or the counter has run past the last line, the
\* session is over (both flags false, completion reported); otherwise the
\* machine is still in DebugPaused, the counter is on a line of the program
\* and that line is reported as pending.
C5_DebugStep ==
    [][(DebugNext /\ Paused(machine)) =>
        /\ Executed
        /\ machine'.result.kind # "error" =>
            IF \/ CurInstr.instr = OP.PARA
               \/ machine'.pc_index >= Len(machine'.sorted_lines)
            THEN /\ ~machine'.debug_mode
                 /\ ~machine'.running
                 /\ machine'.result.kind \in {"finished", "finished_para"}
            ELSE /\ Paused(machine')
                 /\ machine'.result.kind = "pending"
                 /\ get_current_line_lnum(machine') # None
                 /\ machine'.result.line = get_current_line_lnum(machine')]_vars

\* a step has run past the last line and ended the session
C5_Witness ==
    /\ machine.result.op = "debug_next"
    /\ machine.result.kind = "finished"
    /\ machine.trace # <<>>
    /\ machine.pc_index = Len(machine.sorted_lines)
    /\ ~machine.debug_mode

\* C6: debug_next() outside DebugPaused (never started, after debug_stop(),
\* after a run, after PARA or the end of the program) is rejected with an
\* error: no instruction is executed, and stack, memory, program counter
\* and flags are as they were.
C6_StepRejected ==
    [][(DebugNext /\ ~Paused(machine)) =>
        /\ machine'.result.kind = "rejected"
        /\ SameData(machine', machine)
        /\ machine'.debug_mode = machine.debug_mode
        /\ machine'.running = machine.running]_vars

\* a step was rejected on a machine that holds what a session left behind
C6_Witness ==
    /\ machine.result.op = "debug_next"
    /\ machine.result.kind = "rejected"
    /\ machine.stack # <<>>
    /\ machine.trace # <<>>

\* C7 as stated: debug_stop() in DebugPaused or Halted leaves the machine
\* outside DebugPaused with an empty stack and an empty memory.
C7_StopDiscards ==
    [][DebugStop =>
        /\ ~Paused(machine')
        /\ machine'.stack = <<>>
        /\ machine'.memory = <<>>]_vars

\* C7: debug_stop() in DebugPaused or Halted sets both flags false and
\* leaves stack, memory and program counter as they were; a debug_next()
\* that follows it is rejected.
C7_StopKeeps ==
    [][/\ DebugStop =>
            /\ ~machine'.debug_mode
            /\ ~machine'.running
            /\ SameData(machine', machine)
       /\ (DebugNext /\ machine.result.op = "debug_stop") =>
            /\ machine'.result.kind = "rejected"
            /\ SameData(machine', machine)]_vars

\* a session was stopped with values on the stack and in the memory
C7_Witness ==
    /\ machine.result.op = "debug_stop"
    /\ machine.stack # <<>>
    /\ machine.memory # <<>>
    /\ ~machine.debug_mode
    /\ ~machine.running

\* C8: once run() or debug_next() has reported an error of an instruction,
\* no step executes an instruction until a new run() or debug_start().
C8_ErrorIsTerminal ==
    [][(machine.result.kind = "error" /\ machine.result.line # None) =>
        ~Executed]_vars

\* the step is the command RUN, DEBUG or NEXT; the report names the command
\* (or the method it called), which spares evaluating the other commands
TypedRun == machine'.result.op \in {"run", "RUN"} /\ CmdRun
TypedDebug == machine'.result.op \in {"debug_start", "DEBUG"} /\ CmdDebug
TypedNext == machine'.result.op \in {"debug_next", "NEXT"} /\ CmdNext

\* C9: a RUN or DEBUG that starts an execution, typed in whatever state the
\* REPL is in, leaves the stack and the memory empty and the counter on the
\* start line; a RUN ends a paused debug session, and from then on NEXT is
\* rejected and executes nothing until a DEBUG starts a new session.
C9_StartResets ==
    [][/\ (TypedRun \/ TypedDebug) /\ DOMAIN program # {} =>
            /\ machine'.stack = <<>>
            /\ machine'.memory = <<>>
            /\ machine'.trace = <<>>
            /\ get_current_line_lnum(machine') = Some(StartLine)
       /\ TypedRun => ~machine'.debug_mode
       /\ (~machine.debug_mode /\ machine'.debug_mode) => TypedDebug
       /\ (TypedNext /\ ~machine.debug_mode) =>
            /\ machine'.result.kind = "rejected"
            /\ SameData(machine', machine)]_vars

\* a RUN typed in a paused debug session has ended the session and started
\* on an INPP that is not the first line
C9_Witness ==
    /\ machine.result.op = "run"
    /\ machine.result.stopped_debug
    /\ machine.trace = <<>>
    /\ machine.stack = <<>>
    /\ machine.pc_index > 0
    /\ ~machine.debug_mode

\* s is an initial part of t
IsPrefix(s, t) == Len(s) <= Len(t) /\ s = SubSeq(t, 1, Len(s))

\* run() has returned or raised; the stepping has halted or failed
RunEnded == machine.result.op = "run" /\ machine.result.kind # "running"
TwinEnded == twin.result.op # "init" /\ twin.result.kind # "pending"

\* C10: run() and debug_start() followed by debug_next() until the session
\* halts or fails are the same execution: one visits an initial part of the
\* lines the other visits and prints an initial part of what it prints;
\* after the same number of instructions stack, memory, counter and output
\* are the same; neither goes on where the other has ended; and when both
\* have ended, either both failed, on the same line with the same cause, or
\* none did.
C10_RunIsStepping ==
    /\ IsPrefix(machine.trace, twin.trace) \/ IsPrefix(twin.trace, machine.trace)
    /\ IsPrefix(machine.out, twin.out) \/ IsPrefix(twin.out, machine.out)
    /\ Len(machine.trace) = Len(twin.trace) =>
            /\ machine.stack = twin.stack
            /\ machine.memory = twin.memory
            /\ machine.pc_index = twin.pc_index
            /\ machine.out = twin.out
    /\ RunEnded => Len(twin.trace) <= Len(machine.trace)
    /\ TwinEnded => Len(machine.trace) <= Len(twin.trace)
    /\ (RunEnded /\ TwinEnded) =>
            /\ machine.trace = twin.trace
            /\ (machine.result.kind = "error") = (twin.result.kind = "error")
            /\ machine.result.line = twin.result.line
            /\ machine.result.cause = twin.result.cause

\* both executions have failed after the first instruction
C10_Witness ==
    /\ RunEnded
    /\ TwinEnded
    /\ machine.result.kind = "error"
    /\ twin.result.kind = "error"
    /\ Len(machine.trace) >= 2

\* the program 'L1: CRCT 1' followed by 'DSVS L1'
LoopProgram == Prog(<<Labelled(L1, InstrInt(OP.CRCT, 1)), InstrTok(OP.DSVS, L1)>>)

\* on the loop program, run() is in its loop whenever it has been called
LoopRuns == machine'.result.op = "run" => machine'.result.kind = "running"

\* C11 as stated: on the loop program run() never ends, and every accepted
\* debug_next() leaves the machine in DebugPaused and reports the line
\* labelled L1 as the pending instruction.
C11_LoopReportsL1 ==
    [][program = LoopProgram =>
        /\ LoopRuns
        /\ (DebugNext /\ Paused(machine)) =>
            /\ Paused(machine')
            /\ machine'.result.kind = "pending"
            /\ machine'.result.line = Some(machine.labels[L1])]_vars

\* C11: on the loop program run() never ends, and every accepted
\* debug_next() leaves the machine in DebugPaused; the steps alternate: the
\* step that executes the line labelled L1 reports the DSVS line as
\* pending, and the step that executes the DSVS reports the line labelled
\* L1 again.
C11_LoopAlternates ==
    [][program = LoopProgram =>
        /\ LoopRuns
        /\ (DebugNext /\ Paused(machine)) =>
            /\ Executed
            /\ Paused(machine')
            /\ machine'.result.kind = "pending"
            /\ machine'.result.line =
                  IF CurLine = machine.labels[L1]
                  THEN Some(machine.sorted_lines[2])
                  ELSE Some(machine.labels[L1])]_vars

\* the stepping has gone round the loop twice and is on L1 again
C11_Witness ==
    /\ program = LoopProgram
    /\ machine.result.op = "debug_next"
    /\ Paused(machine)
    /\ Len(machine.trace) >= 4
    /\ machine.result.line = Some(machine.labels[L1])

\* the lines that declare tok as their label
Declaring(tok) ==
    {ln \in DOMAIN program : parse_line_text(program[ln]).label = tok}

\* the greatest element of a non-empty set of integers
Greatest(S) == CHOOSE x \in S : \A y \in S : y <= x

\* the current line is a taken jump to a label that two or more lines
\* declare and that is not the number of a line
JumpToDuplicate ==
    /\ JumpTaken
    /\ Len(CurInstr.args) = 1
    /\ Cardinality(Declaring(CurInstr.args[1])) >= 2
    /\ AsLineNumber(CurInstr.args[1]) = None

\* C12: a label that two or more lines declare is mapped to the greatest of
\* their line numbers, and a taken DSVS/DSVF to such a label that is not
\* the number of a line succeeds and lands on that line.
C12_DuplicateLabel ==
    [][/\ \A ln \in DOMAIN program :
            (/\ parse_line_text(program[ln]).label # <<>>
             /\ Cardinality(Declaring(parse_line_text(program[ln]).label)) >= 2) =>
                machine.labels[parse_line_text(program[ln]).label] =
                    Greatest(Declaring(parse_line_text(program[ln]).label))
       /\ (Executed /\ JumpToDuplicate) =>
            /\ machine'.result.kind # "error"
            /\ machine'.pc_index = machine.line_index_map[
                    Greatest(Declaring(CurInstr.args[1]))]]_vars

\* the i-th line the stepped machine executed, decoded
TwinInstr(i) == parse_line_text(program[twin.trace[i]])

\* the line is opcode op with the one argument n
IsOpWith(p, op, n) ==
    /\ p.instr = op
    /\ Len(p.args) = 1
    /\ IsIntLiteral(p.args[1])
    /\ int(p.args[1]) = n

\* the stepped machine is k instructions ahead of the running one, which
\* therefore holds the state the stepped one had k instructions ago
TwinAhead(k) ==
    /\ Len(twin.trace) = Len(machine.trace) + k
    /\ IsPrefix(machine.trace, twin.trace)

\* the stepped machine has just executed AMEM n, and AMEM n then DMEM n
AfterAmem(n) ==
    /\ TwinAhead(1)
    /\ IsOpWith(TwinInstr(Len(twin.trace)), OP.AMEM, n)
AfterAmemDmem(n) ==
    /\ TwinAhead(2)
    /\ IsOpWith(TwinInstr(Len(twin.trace) - 1), OP.AMEM, n)
    /\ IsOpWith(TwinInstr(Len(twin.trace)), OP.DMEM, n)

\* C13: AMEM n with n >= 0 succeeds and appends n cells; DMEM n executed
\* right after it succeeds too and leaves the memory (length and contents)
\* and the stack as they were before the AMEM.
C13_AmemDmem ==
    \A n \in MemSizes :
        /\ AfterAmem(n) =>
            /\ twin.result.kind # "error"
            /\ Len(twin.memory) = Len(machine.memory) + n
            /\ IsPrefix(machine.memory, twin.memory)
            /\ twin.stack = machine.stack
        /\ AfterAmemDmem(n) =>
            /\ twin.result.kind # "error"
            /\ twin.memory = machine.memory
            /\ twin.stack = machine.stack

\* AMEM 2 and DMEM 2 were executed on a memory and a stack that hold values
C13_Witness ==
    /\ AfterAmemDmem(2)
    /\ twin.result.kind # "error"
    /\ machine.memory # <<>>
    /\ machine.memory[1] # 0
    /\ machine.stack # <<>>

\* the program CRCT v; IMPR; PARA
PrintProgram(v) == Prog(<<InstrInt(OP.CRCT, v), OP.IMPR, OP.PARA>>)

\* the execution has ended on PARA, by run() or by stepping
HaltedOnPara(m) ==
    /\ m.result.kind \in {"returned", "finished_para"}
    /\ m.trace # <<>>
    /\ parse_line_text(program[m.trace[Len(m.trace)]]).instr = OP.PARA

\* C14: IMPR on an empty stack fails and prints nothing; on any other stack
\* it succeeds, prints the top of the stack once and leaves stack and
\* memory as they were; the program CRCT v; IMPR; PARA has printed exactly
\* v and holds exactly v on the stack when it has halted.
C14_ImprKeepsTop ==
    [][/\ (Executed /\ CurInstr.instr = OP.IMPR) =>
            IF machine.stack = <<>>
            THEN /\ machine'.result.kind = "error"
                 /\ machine'.out = machine.out
                 /\ machine'.stack = machine.stack
                 /\ machine'.memory = machine.memory
            ELSE /\ machine'.result.kind # "error"
                 /\ machine'.out = Append(machine.out, Top(machine.stack))
                 /\ machine'.stack = machine.stack
                 /\ machine'.memory = machine.memory
                 /\ machine'.pc_index = machine.pc_index + 1
       /\ \A v \in PrintValues :
            (program = PrintProgram(v) /\ HaltedOnPara(machine')) =>
                /\ machine'.out = <<v>>
                /\ machine'.stack = <<v>>]_vars

\* CRCT -3; IMPR; PARA has halted
C14_Witness ==
    /\ program = PrintProgram(-3)
    /\ HaltedOnPara(machine)
    /\ machine.out = <<-3>>
    /\ machine.stack = <<-3>>

\* q is the floor of a / b: the remainder a - q * b lies between 0 and b
IsFloor(q, a, b) ==
    IF b > 0 THEN 0 <= a - q * b /\ a - q * b < b
    ELSE b < a - q * b /\ a - q * b <= 0

\* the operands of a binary opcode on the current stack: b on top, a below
\* it, and the rest of the stack
RightOperand == machine.stack[Len(machine.stack)]
LeftOperand == machine.stack[Len(machine.stack) - 1]
BelowOperands == SubSeq(machine.stack, 1, Len(machine.stack) - 2)

\* the current line is opcode op and the stack holds its two operands
BinaryStep(op) ==
    /\ Executed
    /\ CurInstr.instr = op
    /\ Len(machine.stack) >= 2

\* C15: DIVI on the operands a (pushed first) and b: with b # 0 it succeeds
\* and replaces both by the floor of a / b, rounding toward negative
\* infinity (-7 and 2 give -4, 7 and -2 give -4); with b = 0 it fails with
\* the division-by-zero error and pushes nothing.
C15_DiviFloors ==
    [][BinaryStep(OP.DIVI) =>
        IF RightOperand = 0
        THEN /\ machine'.result.kind = "error"
             /\ machine'.result.cause = "Divisao por zero"
             /\ machine'.result.line = Some(CurLine)
             /\ machine'.stack = BelowOperands
        ELSE /\ machine'.result.kind # "error"
             /\ Len(machine'.stack) = Len(machine.stack) - 1
             /\ SubSeq(machine'.stack, 1, Len(machine.stack) - 2) = BelowOperands
             /\ IsFloor(Top(machine'.stack), LeftOperand, RightOperand)
             /\ (LeftOperand = -7 /\ RightOperand = 2) => Top(machine'.stack) = -4
             /\ (LeftOperand = 7 /\ RightOperand = -2) => Top(machine'.stack) = -4]_vars

\* CRCT 7; CRCT -2; DIVI has left -4 as the only value
C15_Witness ==
    /\ program = Prog(<<InstrInt(OP.CRCT, 7), InstrInt(OP.CRCT, -2), OP.DIVI>>)
    /\ Len(machine.trace) = 3
    /\ machine.result.kind # "error"
    /\ machine.stack = <<-4>>

\* the messages of the errors that say an address is outside the memory
OutOfBounds ==
    {"Endereco de memoria negativo", "Endereco de memoria fora do limite",
     "ARMZ indice negativo", "Endereco de memoria nao alocado"}

\* the current line is CRVL n or ARMZ n with n outside [0, len(memory))
BadAddress ==
    /\ CurInstr.instr \in {OP.CRVL, OP.ARMZ}
    /\ Len(CurInstr.args) = 1
    /\ IsIntLiteral(CurInstr.args[1])
    /\ \/ int(CurInstr.args[1]) < 0
       \/ int(CurInstr.args[1]) >= Len(machine.memory)

\* the step failed on the current line and left memory and counter alone
FailedHere ==
    /\ machine'.result.kind = "error"
    /\ machine'.result.line = Some(CurLine)
    /\ machine'.memory = machine.memory
    /\ machine'.pc_index = machine.pc_index

\* AMEM 1; CRVL 5; PARA never executes its PARA
ParaNotReached ==
    program = Prog(<<InstrInt(OP.AMEM, 1), InstrInt(OP.CRVL, 5), OP.PARA>>) =>
        \A i \in 1..Len(machine'.trace) : machine'.trace[i] # 30

\* C16 as stated: every CRVL n or ARMZ n with n outside the memory fails on
\* its line with an out-of-bounds error and leaves the memory as it was.
C16_BadAddressFails ==
    [][/\ (Executed /\ BadAddress) =>
            /\ FailedHere
            /\ machine'.result.cause \in OutOfBounds
       /\ ParaNotReached]_vars

\* C16: every CRVL n or ARMZ n with n outside the memory fails on its line
\* and leaves the memory as it was; the error is an out-of-bounds error,
\* except that ARMZ pops before it checks the address: on an empty stack it
\* fails with the empty-stack error, and otherwise the value is popped by
\* the failed step.  CRVL leaves the stack as it was.
C16_BadAddressOrder ==
    [][/\ (Executed /\ BadAddress) =>
            /\ FailedHere
            /\ IF CurInstr.instr = OP.CRVL
               THEN /\ machine'.result.cause \in OutOfBounds
                    /\ machine'.stack = machine.stack
               ELSE IF machine.stack = <<>>
               THEN /\ machine'.result.cause = EmptyStack
                    /\ machine'.stack = <<>>
               ELSE /\ machine'.result.cause \in OutOfBounds
                    /\ machine'.stack = Popped(machine.stack)
       /\ ParaNotReached]_vars

\* an ARMZ beyond the memory has failed after popping the value
C16_Witness ==
    /\ machine.trace # <<>>
    /\ LastInstr.instr = OP.ARMZ
    /\ machine.result.kind = "error"
    /\ machine.result.cause = "Endereco de memoria nao alocado"
    /\ machine.stack = <<>>
    /\ machine.memory # <<>>

\* the recognized opcodes
Recognized == {OP[k] : k \in DOMAIN OP}

\* the step failed with the unknown-instruction error of the current line
\* and changed nothing
UnknownHere ==
    /\ machine'.result.kind = "error"
    /\ machine'.result.cause = "Instrucao desconhecida"
    /\ machine'.result.line = Some(CurLine)
    /\ machine'.stack = machine.stack
    /\ machine'.memory = machine.memory
    /\ machine'.out = machine.out
    /\ machine'.pc_index = machine.pc_index

\* C17: a line whose decoded opcode is not a recognized one fails with the
\* unknown-instruction error of that line, a line without any opcode (empty
\* text, or a label followed by nothing) included.  execute_current passes
\* over a line without an opcode (if instr is None: pass) and advances.
C17_UnknownFails ==
    [][(Executed /\ CurInstr.instr \notin Recognized) => UnknownHere]_vars

\* C17: a line that only declares a label has been executed without an
\* error and the counter stands on the line after it
C17_Witness ==
    /\ machine.trace # <<>>
    /\ LastInstr.instr = <<>>
    /\ LastInstr.label = L1
    /\ machine.result.kind \in {"pending", "running"}
    /\ machine.pc_index = machine.line_index_map[LastLine] + 1

\* the labels the lines of the program declare
DeclaredLabels ==
    {parse_line_text(program[ln]).label : ln \in DOMAIN program} \ {<<>>}

\* the tables of m are those of the program: sorted_lines lists its line
\* numbers in ascending order, line_index_map gives each line its position
\* (from 0), labels gives each declared label a line that declares it
TablesFit(m) ==
    /\ Len(m.sorted_lines) = Cardinality(DOMAIN program)
    /\ \A i \in 1..Len(m.sorted_lines) : m.sorted_lines[i] \in DOMAIN program
    /\ \A i \in 1..Len(m.sorted_lines), j \in 1..Len(m.sorted_lines) :
            i < j => m.sorted_lines[i] < m.sorted_lines[j]
    /\ DOMAIN m.line_index_map = DOMAIN program
    /\ \A ln \in DOMAIN program :
            m.sorted_lines[m.line_index_map[ln] + 1] = ln
    /\ DOMAIN m.labels = DeclaredLabels
    /\ \A tok \in DeclaredLabels : m.labels[tok] \in Declaring(tok)

\* the step is an editor command: INS, DEL (single or range) or LOAD
TypedEdit == machine'.result.op \in {"INS", "DEL", "LOAD"}

\* C18: an INS, DEL or LOAD typed while a debug session is paused ends the
\* session; the program changes only in steps that leave the machine
\* outside a session; and every step that executes an instruction does so
\* with tables that are those of the program it reads.
C18_NoEditInSession ==
    [][/\ (TypedEdit /\ machine.debug_mode) =>
            /\ ~machine'.debug_mode
            /\ ~machine'.running
            /\ machine'.result.stopped_debug
       /\ program' # program =>
            /\ TypedEdit
            /\ ~machine'.debug_mode
            /\ ~machine'.running
       /\ Executed => TablesFit(machine)]_vars

\* an INS has ended a session that had executed an instruction, and has
\* changed the program
C18_Witness ==
    /\ machine.result.op = "INS"
    /\ machine.result.kind = "ok"
    /\ machine.result.stopped_debug
    /\ ~machine.debug_mode
    /\ machine.stack # <<>>
    /\ Len(machine.sorted_lines) = 2

\* r is what opcode op makes of the operands a (pushed earlier) and b
IsResult(op, a, b, r) ==
    CASE op = OP.SOMA -> r = a + b
      [] op = OP.SUBT -> r = a - b
      [] op = OP.MULT -> r = a * b
      [] op = OP.DIVI -> IsFloor(r, a, b)
      [] op = OP.CONJ -> (r = 1) = (a # 0 /\ b # 0)
      [] op = OP.DISJ -> (r = 1) = (a # 0 \/ b # 0)
      [] op = OP.CMME -> (r = 1) = (a < b)
      [] op = OP.CMMA -> (r = 1) = (a > b)
      [] op = OP.CMIG -> (r = 1) = (a = b)
      [] op = OP.CMDG -> (r = 1) = (a # b)
      [] op = OP.CMEG -> (r = 1) = (a <= b)
      [] op = OP.CMAG -> (r = 1) = (a >= b)

\* the results of the logical and the comparison opcodes are 0 or 1
IsTruthValue(op, r) == op \in {OP.SOMA, OP.SUBT, OP.MULT, OP.DIVI} \/ r \in {0, 1}

\* C19: a binary opcode on a stack that holds a (pushed earlier) and b on
\* top of it, DIVI by zero apart, succeeds and replaces the two operands by
\* the one value a op b: the stack is one shorter, the values below the
\* operands are as they were, and the counter moves to the next line.
C19_BinaryOperands ==
    [][\A op \in BinaryOps :
        (BinaryStep(op) /\ ~(op = OP.DIVI /\ RightOperand = 0)) =>
            /\ machine'.result.kind # "error"
            /\ Len(machine'.stack) = Len(machine.stack) - 1
            /\ SubSeq(machine'.stack, 1, Len(machine.stack) - 2) = BelowOperands
            /\ IsResult(op, LeftOperand, RightOperand, Top(machine'.stack))
            /\ IsTruthValue(op, Top(machine'.stack))
            /\ machine'.memory = machine.memory
            /\ machine'.pc_index = machine.pc_index + 1]_vars

\* CRCT 9; CRCT -7; CRCT 2; SUBT has left -9 on top of the 9
C19_Witness ==
    /\ machine.trace # <<>>
    /\ LastInstr.instr = OP.SUBT
    /\ machine.result.kind # "error"
    /\ machine.stack = <<9, -9>>

\* C20: whatever editor commands were typed (INS, DEL of a line or of a
\* range, LOAD; accepted or rejected), the tables of the machine are those
\* of the program as it is now: sorted_lines is the ascending list of its
\* line numbers, line_index_map gives each line its position in it, and
\* labels gives each declared label a line that exists and declares it.
C20_TablesFollowEdits == TablesFit(machine)

\* a DEL has removed one of two lines and a label is still declared
C20_Witness ==
    /\ machine.result.op = "DEL"
    /\ machine.result.kind = "ok"
    /\ Cardinality(DOMAIN program) = 1
    /\ DeclaredLabels # {}
    /\ machine.sorted_lines = sorted(DOMAIN program)

\* a debug session is open: the last method started it or stepped in it
\* without reaching PARA or the end (a step that failed leaves it open)
SessionOpen(m) ==
    \/ m.result.kind = "pending"
    \/ m.result.op = "debug_next" /\ m.result.kind = "error"

\* C21: between two calls of run, debug_start, debug_next and debug_stop,
\* failed ones included, debug_mode and running are equal: both true exactly
\* when a debug session is paused, both false otherwise; running is false
\* after run() has returned or raised.
C21_FlagsAgree ==
    ctl = "prompt" =>
        /\ machine.debug_mode = machine.running
        /\ Paused(machine) <=> SessionOpen(machine)
        /\ machine.result.op = "run" => ~machine.running

\* run() has raised on an instruction and both flags are false
C21_Witness ==
    /\ ctl = "prompt"
    /\ machine.result.op = "run"
    /\ machine.result.kind = "error"
    /\ machine.result.line # None
    /\ ~machine.running
    /\ ~machine.debug_mode

\* the program counter is an index of sorted_lines
ValidCounter(m) == 0 <= m.pc_index /\ m.pc_index < Len(m.sorted_lines)

\* this step was a debug_next() of a paused session that found the program
\* counter past the end: it reported the end of the program without
\* executing anything
PastEndBranch ==
    /\ Paused(machine)
    /\ machine'.result.op = "debug_next"
    /\ machine'.result.kind = "finished"
    /\ machine'.trace = machine.trace

\* C22: whenever a debug session is paused between two REPL commands, the
\* program counter is a valid index of sorted_lines; and no NEXT of any
\* command sequence takes the branch of debug_next for a program counter
\* that is already past the end.
C22_CounterValid ==
    /\ [](ctl = "prompt" /\ Paused(machine) => ValidCounter(machine))
    /\ [][~PastEndBranch]_vars

\* a session is paused on the last of two lines after a step
C22_Witness ==
    /\ ctl = "prompt"
    /\ Paused(machine)
    /\ machine.result.op = "debug_next"
    /\ machine.trace # <<>>
    /\ Len(machine.sorted_lines) = 2
    /\ machine.pc_index = 1

\* the smaller of two numbers
Min(a, b) == IF a <= b THEN a ELSE b

\* how many pops the current line makes before it can fail: a binary opcode
\* pops its two operands, ARMZ n and DSVF t pop one value once their
\* argument has been accepted, every other opcode fails before it pops
PopsBeforeFailure ==
    IF CurInstr.instr \in BinaryOps THEN Min(Len(machine.stack), 2)
    ELSE IF CurInstr.instr = OP.ARMZ /\ Len(CurInstr.args) = 1
            /\ IsIntLiteral(CurInstr.args[1])
    THEN Min(Len(machine.stack), 1)
    ELSE IF CurInstr.instr = OP.DSVF /\ Len(CurInstr.args) = 1
    THEN Min(Len(machine.stack), 1)
    ELSE 0

\* C23: a step whose instruction fails (under run() or debug_next()) leaves
\* the program counter, the memory and the output as they were; the stack
\* is what it was without the operands popped before the failure was
\* detected: one for ARMZ with a bad address and for DSVF on a zero with an
\* unresolved target, two for DIVI by zero, the only operand for a binary
\* opcode on a one-element stack, none otherwise.
C23_FailureFrame ==
    [][(Executed /\ machine'.result.kind = "error") =>
        /\ machine'.result.line = Some(CurLine)
        /\ machine'.pc_index = machine.pc_index
        /\ machine'.memory = machine.memory
        /\ machine'.out = machine.out
        /\ IsPrefix(machine'.stack, machine.stack)
        /\ Len(machine'.stack) = Len(machine.stack) - PopsBeforeFailure]_vars

\* CRCT 9; CRCT a; CRCT 0; DIVI has failed: both operands are gone, the 9
\* below them is left and the counter is still on the DIVI
C23_Witness ==
    /\ machine.trace # <<>>
    /\ LastInstr.instr = OP.DIVI
    /\ machine.result.kind = "error"
    /\ machine.result.cause = "Divisao por zero"
    /\ machine.stack = <<9>>
    /\ get_current_line_lnum(machine) = Some(LastLine)

====
